---- MODULE Spec2Model ----
(***************************************************************************)
(* Model of submitrequest.go: a client that POSTs a managed-file-transfer  *)
(* request to the IBM MQ web server and then GETs the transfer status, at  *)
(* most twice, with a fixed 5 second sleep between the two queries.        *)
(*                                                                         *)
(* The program is sequential.  pc is the position of the single goroutine  *)
(* inside main, postTransferRequest and waitForTransferStatus.  The remote *)
(* server and the network are the environment: what client.Do and          *)
(* ioutil.ReadAll return is chosen nondeterministically.                   *)
(*                                                                         *)
(* Strings the code only copies are TLA+ strings.  URLs are sequences of   *)
(* tokens so that  transferUrl + "?attributes=*"  is a concatenation, and  *)
(* transfer states are sequences of characters so that strings.EqualFold   *)
(* is computed character by character.                                     *)
(***************************************************************************)
EXTENDS Integers, Sequences, FiniteSets, TLC

VARIABLES
    pc,              \* position of the goroutine
    transferRequest, \* main: transferRequest (line 68)
    retCode,         \* main: retCode (line 70)
    transferUrl,     \* main: transferUrl (line 70)
    respCode,        \* main: respCode (lines 73, 80)
    pollNo,          \* which call site of waitForTransferStatus is active: 0, 1 (line 73), 2 (line 80)
    argUrl,          \* waitForTransferStatus: parameter transferUrl
    req,             \* httpPOST / httpGET of the running function
    resp,            \* respPost / respGET of the running function
    respBody,        \* waitForTransferStatus: respBody once parsed (lines 208-210)
    deferred,        \* deferred calls of the running function (lines 165, 204)
    ret,             \* value the running function is about to return: <<code, url>>
    openBodies,      \* number of response bodies obtained and not yet closed
    out,             \* lines written to standard output
    now,             \* wall clock, seconds
    calls,           \* history: client.Do invocations, in order
    polls,           \* history: invocations of waitForTransferStatus, in order
    slept,           \* history: number of completed time.Sleep calls
    submitHist       \* history: how postTransferRequest ended, and the response it got

vars == <<pc, respBody, transferRequest, retCode, transferUrl, respCode, pollNo, argUrl, req,
          resp, deferred, ret, openBodies, out, now, calls, polls, slept, submitHist>>

(***************************************************************************)
(* Bounds of the model.                                                    *)
(***************************************************************************)
MaxItems == 2      \* longest transferSet.item array the server sends
MaxLatency == 1    \* longest duration of one client.Do, seconds

(***************************************************************************)
(* Program constants.                                                      *)
(***************************************************************************)
StatusAccepted == 202
StatusOK == 200
Sentinel == -1
SleepSeconds == 5

mqRestXferUrl == <<"http:", "//localhost:8080", "/ibmmq/rest/v2/admin/mft/transfer">>
mqWebUserId == "mqmftadminusr"
mqWebPassword == "mqmftpassw0rd"

EmptyString == <<>>
AttributesQuery == "?attributes=*"

(***************************************************************************)
(* Character strings and strings.EqualFold.                                *)
(***************************************************************************)
successful == <<"s", "u", "c", "c", "e", "s", "s", "f", "u", "l">>
SUCCESSFUL == <<"S", "U", "C", "C", "E", "S", "S", "F", "U", "L">>
Successful == <<"S", "u", "c", "c", "e", "s", "s", "f", "u", "l">>
failed == <<"f", "a", "i", "l", "e", "d">>

UpperOf == [c \in {"s", "u", "c", "e", "f", "l", "a", "i", "d"} |->
              CASE c = "s" -> "S" [] c = "u" -> "U" [] c = "c" -> "C"
                [] c = "e" -> "E" [] c = "f" -> "F" [] c = "l" -> "L"
                [] c = "a" -> "A" [] c = "i" -> "I" [] c = "d" -> "D"]

\* simple Unicode case folding of one character (ASCII letters of the model)
FoldChar(c) == IF c \in DOMAIN UpperOf THEN UpperOf[c] ELSE c

\* a comparison that respects case
EqualFoldExact(s, t) == s = t

EqualFold(s, t) ==
    /\ Len(s) = Len(t)
    /\ \A i \in 1..Len(s) : FoldChar(s[i]) = FoldChar(t[i])

(***************************************************************************)
(* buildTransferJsonRequest (lines 86-117): the fixed transfer descriptor. *)
(***************************************************************************)
buildTransferJsonRequest ==
    [sourceAgent      |-> [qmgrName |-> "SRCQM", name |-> "SRC"],
     destinationAgent |-> [qmgrName |-> "DESTQM", name |-> "DEST"],
     transferSet      |-> [item |-> << [source      |-> [name |-> "/usr/srcdir", type |-> "file"],
                                        destination |-> [name |-> "/usr/destdir", type |-> "directory"]] >>]]

(***************************************************************************)
(* buildHTTPRequestHeader (lines 126-147).  http.NewRequest fails when the *)
(* verb is no valid method or when the URL does not parse; a URL token     *)
(* "%zz" stands for an invalid percent escape.  The credentials are kept   *)
(* as the pair that base64 encodes; no property here depends on the        *)
(* encoding.                                                               *)
(***************************************************************************)
InvalidEscape == "%zz"

ValidMethod(httpVerb) == httpVerb \in {"GET", "POST"}

UrlParses(url) == \A i \in 1..Len(url) : url[i] # InvalidEscape

NoRequest == [method |-> "", url |-> EmptyString]

buildHTTPRequestHeader(httpVerb, url, body, userId, password) ==
    IF ValidMethod(httpVerb) /\ UrlParses(url)
    THEN [errReq |-> FALSE,
          httpRequest |->
              [method  |-> httpVerb,
               url     |-> url,
               body    |-> body,
               header  |-> [Authorization |-> <<"Basic", userId, ":", password>>,
                            csrfToken     |-> "",
                            ContentType   |-> "application/json"]]]
    ELSE [errReq |-> TRUE, httpRequest |-> NoRequest]

\* http.Client.Do refuses a URL whose scheme is not http or https before
\* anything is sent ("unsupported protocol scheme").
SchemeSupported(url) == Len(url) > 0 /\ url[1] \in {"http:", "https:"}

(***************************************************************************)
(* The environment: what the server may answer.                            *)
(***************************************************************************)
GoodLocation == <<"http:", "//x", "/transfer/123">>
BadEscapeLocation == <<"http:", "//x", "/transfer/", "%zz">>
Locations == {GoodLocation, EmptyString, BadEscapeLocation}

NoHeaders == [n \in {} |-> EmptyString]
Headers == {NoHeaders} \cup {[n \in {"location"} |-> l] : l \in Locations}

\* http.Header.Get: the value of the header, "" when it is absent
HeaderGet(h, key) == IF key \in DOMAIN h THEN h[key] ELSE EmptyString

PostStatuses == {StatusAccepted, StatusOK, 400}
GetStatuses == {StatusOK, StatusAccepted, 404}
Latencies == 0..MaxLatency

NoResponse == [StatusCode |-> 0, Header |-> NoHeaders]

ItemStates == {successful, SUCCESSFUL, failed}
TransferStates == {successful, Successful, failed}
ItemDescriptions == {"disk full", "ok"}

Items == [status : [state : ItemStates, description : ItemDescriptions]]

RECURSIVE SeqsUpTo(_, _)
SeqsUpTo(S, n) ==
    IF n = 0 THEN {<<>>}
    ELSE LET shorter == SeqsUpTo(S, n - 1)
         IN shorter \cup {Append(q, x) : q \in {r \in shorter : Len(r) = n - 1}, x \in S}

Transfers ==
    [id          : {"414d5120"},
     status      : [state : TransferStates, description : {"transfer ended"}],
     transferSet : [item : SeqsUpTo(Items, MaxItems)]]

OtherTransfer ==
    [id          |-> "414d5121",
     status      |-> [state |-> successful, description |-> "transfer ended"],
     transferSet |-> [item |-> <<>>]]

\* The parsed response body.  Only the first element of transfer is read by
\* the program, so longer arrays carry one fixed second element.
TransferArrays ==
    {<<>>} \cup {<<t>> : t \in Transfers} \cup {<<t, OtherTransfer>> : t \in Transfers}

NoDoc == [hasTransfer |-> FALSE, transfer |-> <<>>]

Docs == {NoDoc}
            \cup {[hasTransfer |-> TRUE, transfer |-> a] : a \in TransferArrays}

\* gjson.Get(body, "transfer").Array(): the elements, none when the path
\* does not exist
GjsonTransferArray(doc) == IF doc.hasTransfer THEN doc.transfer ELSE <<>>

(***************************************************************************)
(* Standard output: one record per Printf.                                 *)
(***************************************************************************)
Line(kind) == [k |-> kind]
TextLine(kind, text) == [k |-> kind, v |-> text]

(***************************************************************************)
(* Deferred calls.  Every deferred call of the program is a Body.Close of  *)
(* the response of the running function; the deferred calls run when the   *)
(* function returns and when a panic unwinds it.                           *)
(***************************************************************************)
BodyClose == "Body.Close"

\* the deferred calls forgotten
RunDeferredNothing(d, open) == open

RunDeferred(d, open) == open - Len(SelectSeq(d, LAMBDA c : c = BodyClose))

(***************************************************************************)
(* Initial state: the process has started, main has not run yet.           *)
(***************************************************************************)
NoSubmit == [kind |-> "", status |-> 0, header |-> NoHeaders]

Init ==
    /\ pc = "main"
    /\ transferRequest = <<>>
    /\ retCode = 0
    /\ transferUrl = EmptyString
    /\ respCode = 0
    /\ pollNo = 0
    /\ argUrl = EmptyString
    /\ req = NoRequest
    /\ resp = NoResponse
    /\ respBody = NoDoc
    /\ deferred = <<>>
    /\ ret = <<>>
    /\ openBodies = 0
    /\ out = <<>>
    /\ now = 0
    /\ calls = <<>>
    /\ polls = <<>>
    /\ slept = 0
    /\ submitHist = NoSubmit

(***************************************************************************)
(* main, line 68.                                                          *)
(***************************************************************************)
MainBuild ==
    /\ pc = "main"
    /\ transferRequest' = buildTransferJsonRequest
    /\ pc' = "post_build"
    /\ UNCHANGED <<respBody, retCode, transferUrl, respCode, pollNo, argUrl, req, resp, deferred,
                   ret, openBodies, out, now, calls, polls, slept, submitHist>>

(***************************************************************************)
(* postTransferRequest, lines 153-158.                                     *)
(***************************************************************************)
PostBuildRequest ==
    /\ pc = "post_build"
    /\ LET b == buildHTTPRequestHeader("POST", mqRestXferUrl, transferRequest,
                                       mqWebUserId, mqWebPassword)
       IN  IF b.errReq
           THEN /\ out' = Append(out, Line("error creating HTTP request"))
                /\ ret' = <<Sentinel, EmptyString>>
                /\ submitHist' = [submitHist EXCEPT !.kind = "construct"]
                /\ pc' = "post_ret"
                /\ req' = req
           ELSE /\ req' = b.httpRequest
                /\ pc' = "post_do"
                /\ UNCHANGED <<out, ret, submitHist>>
    /\ UNCHANGED <<respBody, transferRequest, retCode, transferUrl, respCode, pollNo, argUrl, resp,
                   deferred, openBodies, now, calls, polls, slept>>

(***************************************************************************)
(* postTransferRequest, lines 159-167: postClient.Do, the defer, and the   *)
(* "Submitted" line.                                                       *)
(***************************************************************************)
PostDo ==
    /\ pc = "post_do"
    /\ \E d \in Latencies : now' = now + d
    /\ calls' = Append(calls, [verb |-> req.method, url |-> req.url, poll |-> 0])
    /\ \/ /\ out' = Append(out, Line("error sending request"))
          /\ ret' = <<Sentinel, EmptyString>>
          /\ submitHist' = [submitHist EXCEPT !.kind = "transport"]
          /\ pc' = "post_ret"
          /\ UNCHANGED <<resp, deferred, openBodies>>
       \/ /\ SchemeSupported(req.url)
          /\ \E s \in PostStatuses, h \in Headers :
                /\ resp' = [StatusCode |-> s, Header |-> h]
                /\ submitHist' = [submitHist EXCEPT !.status = s, !.header = h]
          /\ openBodies' = openBodies + 1
          /\ deferred' = Append(deferred, BodyClose)
          /\ out' = Append(out, Line("Submitted transfer request"))
          /\ pc' = "post_read"
          /\ ret' = ret
    /\ UNCHANGED <<respBody, transferRequest, retCode, transferUrl, respCode, pollNo, argUrl, req,
                   polls, slept>>

(***************************************************************************)
(* postTransferRequest, lines 169-181: the values returned once the        *)
(* response is there, readOk telling whether ioutil.ReadAll succeeded.     *)
(***************************************************************************)
\* the status kept although the body could not be read
PostResultIgnoringReadError(r, readOk) ==
    <<r.StatusCode,
      IF r.StatusCode = StatusAccepted
      THEN HeaderGet(r.Header, "location")
      ELSE EmptyString>>

\* the location header taken whatever the status
PostResultAnyStatusLocation(r, readOk) ==
    IF ~readOk
    THEN <<Sentinel, EmptyString>>
    ELSE <<r.StatusCode, HeaderGet(r.Header, "location")>>

PostResult(r, readOk) ==
    IF ~readOk
    THEN <<Sentinel, EmptyString>>
    ELSE <<r.StatusCode,
           IF r.StatusCode = StatusAccepted
           THEN HeaderGet(r.Header, "location")
           ELSE EmptyString>>

PostReadBody ==
    /\ pc = "post_read"
    /\ \E readOk \in BOOLEAN :
          /\ ret' = PostResult(resp, readOk)
          /\ out' = IF ~readOk
                    THEN Append(out, Line("error reading response"))
                    ELSE IF resp.StatusCode = StatusAccepted
                         THEN out \o <<TextLine("HTTP response received", resp.StatusCode),
                                       TextLine("Transfer URL", HeaderGet(resp.Header, "location"))>>
                         ELSE Append(out, TextLine("HTTP response received", resp.StatusCode))
          /\ submitHist' = [submitHist EXCEPT !.kind =
                               IF ~readOk THEN "readfail"
                               ELSE IF resp.StatusCode = StatusAccepted THEN "accepted"
                               ELSE "status"]
    /\ pc' = "post_ret"
    /\ UNCHANGED <<respBody, transferRequest, retCode, transferUrl, respCode, pollNo, argUrl, req,
                   resp, deferred, openBodies, now, calls, polls, slept>>

(***************************************************************************)
(* postTransferRequest returns (lines 157, 163, 182): the deferred calls   *)
(* run and main assigns retCode and transferUrl (line 70).                 *)
(***************************************************************************)
PostReturn ==
    /\ pc = "post_ret"
    /\ openBodies' = RunDeferred(deferred, openBodies)
    /\ deferred' = <<>>
    /\ retCode' = ret[1]
    /\ transferUrl' = ret[2]
    /\ ret' = <<>>
    /\ req' = NoRequest
    /\ resp' = NoResponse
    /\ pc' = "main_check_submit"
    /\ UNCHANGED <<respBody, transferRequest, respCode, pollNo, argUrl, out, now, calls, polls,
                   slept, submitHist>>

(***************************************************************************)
(* main, lines 71-73, 76 and 80: the two decisions and the two call sites  *)
(* of waitForTransferStatus.                                               *)
(***************************************************************************)
\* polling after anything but a local failure
ShouldPollUnlessSentinel(code) == code # Sentinel

\* the test of line 76 inverted
ShouldRetryInverted(code) == code = StatusOK

ShouldPoll(code) == code = StatusAccepted

ShouldRetry(code) == code # StatusOK

NewPoll(handle) ==
    [handle |-> handle, start |-> now, returned |-> FALSE, code |-> 0, kind |-> "",
     finish |-> 0, outStart |-> Len(out)]

MainCheckSubmit ==
    /\ pc = "main_check_submit"
    /\ IF ShouldPoll(retCode)
       THEN /\ pollNo' = 1
            /\ argUrl' = transferUrl
            /\ polls' = Append(polls, NewPoll(transferUrl))
            /\ pc' = "get_build"
       ELSE /\ pc' = "done"
            /\ UNCHANGED <<pollNo, argUrl, polls>>
    /\ UNCHANGED <<respBody, transferRequest, retCode, transferUrl, respCode, req, resp, deferred,
                   ret, openBodies, out, now, calls, slept, submitHist>>

MainCheckPoll ==
    /\ pc = "main_check_poll"
    /\ pc' = IF ShouldRetry(respCode) THEN "sleep" ELSE "done"
    /\ UNCHANGED <<respBody, transferRequest, retCode, transferUrl, respCode, pollNo, argUrl, req,
                   resp, deferred, ret, openBodies, out, now, calls, polls, slept,
                   submitHist>>

\* line 78: time.Sleep(5 * time.Second)
Sleep ==
    /\ pc = "sleep"
    /\ now' = now + SleepSeconds
    /\ slept' = slept + 1
    /\ pc' = "main_retry"
    /\ UNCHANGED <<respBody, transferRequest, retCode, transferUrl, respCode, pollNo, argUrl, req,
                   resp, deferred, ret, openBodies, out, calls, polls, submitHist>>

MainRetry ==
    /\ pc = "main_retry"
    /\ pollNo' = 2
    /\ argUrl' = transferUrl
    /\ polls' = Append(polls, NewPoll(transferUrl))
    /\ pc' = "get_build"
    /\ UNCHANGED <<respBody, transferRequest, retCode, transferUrl, respCode, req, resp, deferred,
                   ret, openBodies, out, now, calls, slept, submitHist>>

(***************************************************************************)
(* waitForTransferStatus, lines 191-196.                                   *)
(***************************************************************************)
SetKind(kind) == [polls EXCEPT ![Len(polls)].kind = kind]

GetBuildRequest ==
    /\ pc = "get_build"
    /\ LET b == buildHTTPRequestHeader("GET", Append(argUrl, AttributesQuery), "",
                                       mqWebUserId, mqWebPassword)
           o == Append(out, Line("Querying status of transfer"))
       IN  IF b.errReq
           THEN /\ out' = Append(o, Line("error creating HTTP request"))
                /\ ret' = <<Sentinel>>
                /\ polls' = SetKind("construct")
                /\ pc' = "get_ret"
                /\ req' = req
           ELSE /\ out' = o
                /\ req' = b.httpRequest
                /\ pc' = "get_do"
                /\ UNCHANGED <<ret, polls>>
    /\ UNCHANGED <<respBody, transferRequest, retCode, transferUrl, respCode, pollNo, argUrl, resp,
                   deferred, openBodies, now, calls, slept, submitHist>>

\* getClient.Do attempted a second time after a transport failure
GetDoRetrying ==
    /\ pc = "get_do"
    /\ \E d \in Latencies : now' = now + d
    /\ LET c == [verb |-> req.method, url |-> req.url, poll |-> pollNo]
       IN  \/ /\ calls' = calls \o <<c, c>>
              /\ out' = Append(out, Line("error sending request"))
              /\ ret' = <<Sentinel>>
              /\ polls' = SetKind("transport")
              /\ pc' = "get_ret"
              /\ UNCHANGED <<resp, deferred, openBodies>>
           \/ /\ SchemeSupported(req.url)
              /\ calls' = Append(calls, c)
              /\ \E s \in GetStatuses : resp' = [StatusCode |-> s, Header |-> NoHeaders]
              /\ openBodies' = openBodies + 1
              /\ deferred' = Append(deferred, BodyClose)
              /\ pc' = "get_status"
              /\ UNCHANGED <<out, ret, polls>>
    /\ UNCHANGED <<respBody, transferRequest, retCode, transferUrl, respCode, pollNo,
                   argUrl, req, slept, submitHist>>

(***************************************************************************)
(* waitForTransferStatus, lines 197-204: getClient.Do and the defer.       *)
(***************************************************************************)
GetDo ==
    /\ pc = "get_do"
    /\ \E d \in Latencies : now' = now + d
    /\ calls' = Append(calls, [verb |-> req.method, url |-> req.url, poll |-> pollNo])
    /\ \/ /\ out' = Append(out, Line("error sending request"))
          /\ ret' = <<Sentinel>>
          /\ polls' = SetKind("transport")
          /\ pc' = "get_ret"
          /\ UNCHANGED <<resp, deferred, openBodies>>
       \/ /\ SchemeSupported(req.url)
          /\ \E s \in GetStatuses : resp' = [StatusCode |-> s, Header |-> NoHeaders]
          /\ openBodies' = openBodies + 1
          /\ deferred' = Append(deferred, BodyClose)
          /\ pc' = "get_status"
          /\ UNCHANGED <<out, ret, polls>>
    /\ UNCHANGED <<respBody, transferRequest, retCode, transferUrl, respCode, pollNo, argUrl, req,
                   slept, submitHist>>

(***************************************************************************)
(* waitForTransferStatus, lines 213-227: what is printed for the first     *)
(* transfer of the response.                                               *)
(***************************************************************************)
RECURSIVE ItemLoop(_, _)
ItemLoop(transferItems, index) ==
    IF index > Len(transferItems)
    THEN <<>>
    ELSE (IF ~EqualFold(transferItems[index].status.state, successful)
          THEN <<TextLine("item", transferItems[index].status.description)>>
          ELSE <<>>)
         \o ItemLoop(transferItems, index + 1)

StatusLines(t) ==
    <<[k |-> "Status of transfer", id |-> t.id, state |-> t.status.state]>>
    \o (IF ~EqualFold(t.status.state, successful)
        THEN <<TextLine("Following errors occurred", t.status.description)>>
             \o ItemLoop(t.transferSet.item, 1)
        ELSE <<>>)

(***************************************************************************)
(* waitForTransferStatus, lines 206-233.  The body arrives when it is      *)
(* read (line 208).  respJson[0] on an empty array is a run-time panic.    *)
(***************************************************************************)
GetProcess ==
    /\ pc = "get_status"
    /\ IF resp.StatusCode = StatusOK
       THEN \/ /\ out' = Append(out, Line("error reading response"))
               /\ ret' = <<resp.StatusCode>>
               /\ polls' = SetKind("readfail")
               /\ pc' = "get_ret"
               /\ respBody' = respBody
            \/ \E doc \in Docs :
                  LET respJson == GjsonTransferArray(doc)
                  IN  /\ respBody' = doc
                      /\ IF Len(respJson) = 0
                         THEN /\ pc' = "panic"
                              /\ polls' = SetKind("panic")
                              /\ UNCHANGED <<out, ret>>
                         ELSE /\ out' = out \o StatusLines(respJson[1])
                              /\ ret' = <<resp.StatusCode>>
                              /\ polls' = SetKind("ok")
                              /\ pc' = "get_ret"
       ELSE /\ out' = Append(out, TextLine("Response code received", resp.StatusCode))
            /\ ret' = <<resp.StatusCode>>
            /\ polls' = SetKind("status")
            /\ pc' = "get_ret"
            /\ respBody' = respBody
    /\ UNCHANGED <<transferRequest, retCode, transferUrl, respCode, pollNo, argUrl, req,
                   resp, deferred, openBodies, now, calls, slept, submitHist>>

(***************************************************************************)
(* waitForTransferStatus returns (lines 195, 202, 234): the deferred calls *)
(* run and main assigns respCode (lines 73, 80).  After the second call    *)
(* main ends.                                                              *)
(***************************************************************************)
GetReturn ==
    /\ pc = "get_ret"
    /\ openBodies' = RunDeferred(deferred, openBodies)
    /\ deferred' = <<>>
    /\ respCode' = ret[1]
    /\ polls' = [polls EXCEPT ![Len(polls)].returned = TRUE,
                              ![Len(polls)].code = ret[1],
                              ![Len(polls)].finish = now]
    /\ ret' = <<>>
    /\ req' = NoRequest
    /\ resp' = NoResponse
    /\ respBody' = NoDoc
    /\ pc' = IF pollNo = 1 THEN "main_check_poll" ELSE "done"
    /\ UNCHANGED <<transferRequest, retCode, transferUrl, pollNo, argUrl, out, now, calls,
                   slept, submitHist>>

(***************************************************************************)
(* The panic of line 211 unwinds waitForTransferStatus and main: the       *)
(* deferred calls run, then the process exits abnormally.                  *)
(***************************************************************************)
PanicUnwind ==
    /\ pc = "panic"
    /\ openBodies' = RunDeferred(deferred, openBodies)
    /\ deferred' = <<>>
    /\ out' = Append(out, Line("panic: runtime error: index out of range"))
    /\ pc' = "aborted"
    /\ UNCHANGED <<respBody, transferRequest, retCode, transferUrl, respCode, pollNo, argUrl, req,
                   resp, ret, now, calls, polls, slept, submitHist>>

Next ==
    \/ MainBuild
    \/ PostBuildRequest
    \/ PostDo
    \/ PostReadBody
    \/ PostReturn
    \/ MainCheckSubmit
    \/ GetBuildRequest
    \/ GetDo
    \/ GetProcess
    \/ GetReturn
    \/ PanicUnwind
    \/ MainCheckPoll
    \/ Sleep
    \/ MainRetry

Spec == Init /\ [][Next]_vars

(***************************************************************************)
(* Vocabulary of the properties.                                           *)
(***************************************************************************)
\* postTransferRequest has returned to main
SubmitReturned == pc \notin {"main", "post_build", "post_do", "post_read", "post_ret"}

\* main has taken the decision of line 71
SubmitDecided == SubmitReturned /\ pc # "main_check_submit"

\* main has ended normally
Completed == pc = "done"

\* the status codes an HTTP response can carry
ValidHttpStatus == 100..599

DoCalls(verb, n) == SelectSeq(calls, LAMBDA c : c.verb = verb /\ c.poll = n)

\* s is "successful" up to the case of its letters, character by character
SuccessfulAnyCase(s) ==
    /\ Len(s) = Len(successful)
    /\ \A i \in 1..Len(s) : s[i] \in {successful[i], SUCCESSFUL[i]}

\* the per-item failure lines the running poll has printed, in order
ItemLinesPrinted ==
    LET mine  == SubSeq(out, polls[Len(polls)].outStart + 1, Len(out))
        lines == SelectSeq(mine, LAMBDA l : l.k = "item")
    IN  [i \in 1..Len(lines) |-> lines[i].v]

\* the descriptions of the items of t that are not successful, in item order
FailedItemDescriptions(t) ==
    LET bad == SelectSeq(t.transferSet.item, LAMBDA it : ~SuccessfulAnyCase(it.status.state))
    IN  [i \in 1..Len(bad) |-> bad[i].status.description]

(***************************************************************************)
(* C1.  waitForTransferStatus is invoked, and a GET is sent, only after    *)
(* postTransferRequest has returned 202; when postTransferRequest has      *)
(* returned any other code, no poll has been invoked and none ever is.     *)
(***************************************************************************)
C1_PollOnlyAfterAccepted ==
    /\ (polls # <<>> \/ \E i \in 1..Len(calls) : calls[i].verb = "GET")
          => (SubmitReturned /\ retCode = StatusAccepted)
    /\ (SubmitReturned /\ retCode # StatusAccepted)
          => (polls = <<>> /\ pc \in {"main_check_submit", "done"})

C1_Witness ==
    /\ Completed
    /\ retCode = 400
    /\ transferUrl = EmptyString
    /\ polls = <<>>

(***************************************************************************)
(* C2.  After a 202 submit the flow polls once; there is a second poll     *)
(* exactly when the first poll returned a code other than 200, it comes    *)
(* after one sleep of 5 seconds, and there is never a third poll nor a     *)
(* second sleep; when the first poll returned 200 there is no sleep.       *)
(***************************************************************************)
C2_SingleTimedRetry ==
    /\ Len(polls) <= 2
    /\ slept <= 1
    /\ Len(polls) = 2 =>
          /\ polls[1].returned
          /\ polls[1].code # StatusOK
          /\ slept = 1
          /\ polls[2].start >= polls[1].finish + SleepSeconds
    /\ slept = 1 => (polls[1].returned /\ polls[1].code # StatusOK)
    /\ (SubmitDecided /\ retCode = StatusAccepted) => Len(polls) >= 1
    /\ (pc \in {"done", "aborted"} /\ polls # <<>> /\ polls[1].returned) =>
          /\ (Len(polls) = 2) <=> (polls[1].code # StatusOK)
          /\ polls[1].code = StatusOK => slept = 0

C2_Witness ==
    /\ Completed
    /\ Len(polls) = 2
    /\ polls[1].code = 404
    /\ polls[2].code = StatusOK
    /\ polls[2].kind = "ok"
    /\ polls[2].start - polls[1].finish >= SleepSeconds

(***************************************************************************)
(* C3.  Whatever the server answers, main completes normally: the process  *)
(* never panics and never ends abnormally.                                 *)
(***************************************************************************)
C3_NeverAborts == pc \notin {"panic", "aborted"}

(***************************************************************************)
(* C4.  When the first poll ended in a transport failure, a body-read      *)
(* failure or a non-success HTTP status, the run that completes has slept  *)
(* once and polled a second time.                                          *)
(***************************************************************************)
C4_RetryAfterAnyPollError ==
    (Completed /\ polls # <<>> /\ polls[1].kind \in {"transport", "readfail", "status"})
        => (Len(polls) = 2 /\ slept = 1)

(***************************************************************************)
(* C5.  A completed run that never polled is a run whose submission ended  *)
(* in an HTTP status other than 202: construction, transport and body-read *)
(* failures of the submission do not stop the flow from polling.           *)
(***************************************************************************)
C5_OnlyStatusSuppressesPoll ==
    (Completed /\ polls = <<>>) => submitHist.kind = "status"

(***************************************************************************)
(* C5, amended.  Once main has decided, no poll was invoked exactly when   *)
(* the submission ended in a construction failure, a transport failure, a  *)
(* body-read failure (also on a 202 response) or an HTTP status other than *)
(* 202; all of them suppress the poll step.                                *)
(***************************************************************************)
C5_AnySubmitFailureSuppressesPoll ==
    SubmitDecided =>
        (polls = <<>> <=> submitHist.kind \in {"construct", "transport", "readfail", "status"})

C5_Witness ==
    /\ Completed
    /\ submitHist.kind = "readfail"
    /\ submitHist.status = StatusAccepted
    /\ polls = <<>>

(***************************************************************************)
(* C6.  postTransferRequest returns a non-empty handle only for status     *)
(* 202; after a round trip whose body was read, status 202 with location   *)
(* header L gives (202, L) and any other status s gives (s, "").           *)
(***************************************************************************)
C6_SubmitResult ==
    SubmitReturned =>
        /\ transferUrl # EmptyString =>
              (retCode = StatusAccepted /\ submitHist.status = StatusAccepted)
        /\ submitHist.kind = "accepted" =>
              /\ submitHist.status = StatusAccepted
              /\ retCode = StatusAccepted
              /\ "location" \in DOMAIN submitHist.header =>
                    transferUrl = submitHist.header["location"]
        /\ submitHist.kind = "status" =>
              /\ submitHist.status # StatusAccepted
              /\ retCode = submitHist.status
              /\ transferUrl = EmptyString

C6_Witness ==
    /\ pc = "main_check_submit"
    /\ submitHist.kind = "accepted"
    /\ retCode = StatusAccepted
    /\ transferUrl = GoodLocation

(***************************************************************************)
(* C7.  A submit or poll that hit a construction or transport failure      *)
(* returns -1 (submit with an empty handle); -1 is no HTTP status, not 200 *)
(* and not 202; and the HTTP call is not attempted again: one POST per     *)
(* run, one GET per poll that got as far as sending, none for a poll whose *)
(* request could not be built.                                             *)
(***************************************************************************)
C7_SentinelAndNoReattempt ==
    /\ Sentinel \notin ValidHttpStatus \cup {StatusOK, StatusAccepted}
    /\ Len(DoCalls("POST", 0)) <= 1
    /\ SubmitReturned =>
          /\ submitHist.kind \in {"construct", "transport"} =>
                (retCode = Sentinel /\ transferUrl = EmptyString)
          /\ Len(DoCalls("POST", 0)) = (IF submitHist.kind = "construct" THEN 0 ELSE 1)
    /\ \A i \in 1..Len(polls) :
          /\ Len(DoCalls("GET", i)) <= 1
          /\ polls[i].returned =>
                /\ polls[i].kind \in {"construct", "transport"} => polls[i].code = Sentinel
                /\ Len(DoCalls("GET", i)) = (IF polls[i].kind = "construct" THEN 0 ELSE 1)

C7_Witness ==
    /\ Completed
    /\ Len(polls) = 2
    /\ polls[1].kind = "transport"
    /\ polls[1].code = Sentinel
    /\ polls[2].kind = "transport"
    /\ Len(calls) = 3

(***************************************************************************)
(* C8.  A poll that read a 200 response with a non-empty transfer array    *)
(* returns 200 and has printed, as per-item failure lines, nothing when    *)
(* the first transfer's state is "successful" in any letter case, and      *)
(* otherwise the descriptions of the items whose state is not "successful" *)
(* in any letter case, once each, in item order.                           *)
(***************************************************************************)
C8_ItemFailureLines ==
    (pc = "get_ret" /\ polls[Len(polls)].kind = "ok") =>
        LET t == GjsonTransferArray(respBody)[1]
        IN  /\ ret[1] = StatusOK
            /\ ItemLinesPrinted =
                  (IF SuccessfulAnyCase(t.status.state)
                   THEN <<>>
                   ELSE FailedItemDescriptions(t))

C8_Witness ==
    /\ pc = "get_ret"
    /\ polls[Len(polls)].kind = "ok"
    /\ LET t == GjsonTransferArray(respBody)[1]
       IN  /\ t.status.state = failed
           /\ t.transferSet.item =
                 << [status |-> [state |-> SUCCESSFUL, description |-> "ok"]],
                    [status |-> [state |-> failed, description |-> "disk full"]] >>
    /\ ItemLinesPrinted = <<"disk full">>

(***************************************************************************)
(* C9.  A response body is open only inside the function that obtained     *)
(* it: none is open when main runs, when an HTTP call is about to start or  *)
(* when the process has ended, and never more than one is open.             *)
(***************************************************************************)
C9_BodiesClosed ==
    /\ openBodies \in {0, 1}
    /\ pc \in {"main", "post_build", "post_do", "main_check_submit", "get_build", "get_do",
               "main_check_poll", "sleep", "main_retry", "done", "aborted"}
          => openBodies = 0

C9_Witness ==
    /\ Completed
    /\ openBodies = 0
    /\ Len(calls) = 3
    /\ polls[1].kind = "status"
    /\ polls[2].kind = "readfail"

(***************************************************************************)
(* C10.  Every poll is invoked with the same non-empty handle, the value   *)
(* of the location header of the 202 response.                             *)
(***************************************************************************)
C10_PollHandleNonEmpty ==
    \A i \in 1..Len(polls) :
        /\ polls[i].handle # EmptyString
        /\ polls[i].handle = polls[1].handle
        /\ polls[i].handle = HeaderGet(submitHist.header, "location")

====
